---- MODULE Spec2Model ----
(***************************************************************************)
(* The legacy Windows console adapter (rich/_win32_console.py) and the     *)
(* dispatcher that drives it (rich/_windows_renderer.py).                  *)
(*                                                                         *)
(* The console is the CONSOLE_SCREEN_BUFFER_INFO the native API reports    *)
(* (dwSize, dwCursorPosition, wAttributes), the cursor-info visibility     *)
(* flag and the character cells of the screen buffer.  A COORD is a record *)
(* [X, Y]; a WindowsCoordinates is a record [row, col].                    *)
(***************************************************************************)
EXTENDS Integers, Sequences, FiniteSets, TLC

VARIABLES
    term,      \* the LegacyWindowsTerm instance: its cached default words
    console,   \* the native console behind the handle
    buffer,    \* the segments handed to legacy_windows_render
    i,         \* index of the segment the renderer's outer loop is at
    j,         \* index of the control code the inner loop is at
    calls,     \* adapter methods called since the current top-level call began
    native,    \* native and file calls issued since the top-level call began
    raised     \* the top-level call was left by an exception

vars == <<term, console, buffer, i, j, calls, native, raised>>

(***************************************************************************)
(* Bounds of the model.                                                    *)
(***************************************************************************)
MaxWidth == 3
MaxHeight == 3
MaxCoord == 3
MaxItems == 2
MaxCalls == 2

Widths == 1..MaxWidth
Heights == {MaxHeight}
StartupWords == {7, 158, 240}
Texts == {"a", "b"}
FileFailures == {"none", "write", "flush"}

(***************************************************************************)
(* Values.                                                                 *)
(***************************************************************************)
NoColor == -2
NoNumber == -1

NoStyle == [none |-> TRUE, color |-> NoColor, bgcolor |-> NoColor]
Style(color, bgcolor) == [none |-> FALSE, color |-> color, bgcolor |-> bgcolor]
\* the standard colour numbers, and a colour of a style: absent, without a
\* number, or one of the sixteen
AnsiNumbers == 0..15
Colors == {NoColor, NoNumber} \cup AnsiNumbers
Styles ==
    {Style(c, b) : c \in {NoColor, NoNumber, 0, 12}, b \in {NoColor, NoNumber, 0, 1}}
        \cup {Style(c, NoColor) : c \in Colors}
        \cup {Style(NoColor, b) : b \in Colors}

WindowsCoordinates(row, col) == [row |-> row, col |-> col]
COORD(X, Y) == [X |-> X, Y |-> Y]

\* WindowsCoordinates.from_param
from_param(value) == COORD(value.col, value.row)

NativeCall(fn, args, text) == [fn |-> fn, args |-> args, text |-> text]
TermCall(op, args, text, style) == [op |-> op, args |-> args, text |-> text, style |-> style]

\* what an adapter method leaves behind: the console, the calls it issued,
\* and whether it was left by an exception
Result(con, log, exc) == [con |-> con, log |-> log, raised |-> exc]

c_ushort(n) == n % 65536

\* the bound on the length of a console title
TitleLimit == 255

\* a title of n characters
Title(n) == [k \in 1..n |-> "t"]
Titles == {Title(n) : n \in {0, 1, TitleLimit - 1, TitleLimit, TitleLimit + 1}}

\* the table without the exchange of the red and blue bits
ANSI_TO_WINDOWS_unpermuted == <<0, 1, 2, 3, 4, 5, 6, 7, 8, 9, 10, 11, 12, 13, 14, 15>>

ANSI_TO_WINDOWS == <<0, 4, 2, 6, 1, 5, 3, 7, 8, 12, 10, 14, 9, 13, 11, 15>>

(***************************************************************************)
(* The native console API.                                                 *)
(***************************************************************************)
InBuffer(con, coord) ==
    /\ 0 <= coord.X /\ coord.X < con.dwSize.X
    /\ 0 <= coord.Y /\ coord.Y < con.dwSize.Y

\* kernel32.SetConsoleTextAttribute
NativeSetConsoleTextAttribute(con, attributes) ==
    Result(IF con.valid THEN [con EXCEPT !.wAttributes = attributes] ELSE con,
           <<NativeCall("SetConsoleTextAttribute", <<attributes>>, "")>>, FALSE)

\* kernel32.SetConsoleCursorPosition: the coordinate must lie in the buffer
NativeSetConsoleCursorPosition(con, coord) ==
    Result(IF InBuffer(con, coord) THEN [con EXCEPT !.dwCursorPosition = coord] ELSE con,
           <<NativeCall("SetConsoleCursorPosition", <<coord.X, coord.Y>>, "")>>, FALSE)

\* the cells a fill of `length` cells from `coord` covers: consecutive cells,
\* continuing on the next row, up to the end of the buffer
FillCells(con, length, coord) ==
    IF ~InBuffer(con, coord) THEN {}
    ELSE LET w == con.dwSize.X
             first == coord.Y * w + coord.X
         IN {<<y, x>> \in (0..(con.dwSize.Y - 1)) \X (0..(w - 1)) :
                 first <= y * w + x /\ y * w + x < first + length}

\* kernel32.FillConsoleOutputCharacterW with a space
NativeFillConsoleOutputCharacterW(con, length, coord) ==
    Result([con EXCEPT !.blank = @ \cup FillCells(con, length, coord)],
           <<NativeCall("FillConsoleOutputCharacterW", <<length, coord.X, coord.Y>>, " ")>>,
           FALSE)

\* kernel32.SetConsoleCursorInfo
NativeSetConsoleCursorInfo(con, dwSize, bVisible) ==
    Result(IF con.valid THEN [con EXCEPT !.bVisible = bVisible] ELSE con,
           <<NativeCall("SetConsoleCursorInfo", <<dwSize, bVisible>>, "")>>, FALSE)

\* kernel32.SetConsoleTitleW
NativeSetConsoleTitle(con, title) ==
    Result(con, <<NativeCall("SetConsoleTitleW", <<Len(title)>>, "")>>, FALSE)

(***************************************************************************)
(* The wrappers of rich/_win32_console.py.                                 *)
(***************************************************************************)
FillConsoleOutputCharacter(con, length, start) ==
    LET x == start.row     \* x, y = start unpacks the (row, col) tuple in order
        y == start.col
    IN NativeFillConsoleOutputCharacterW(con, length, from_param(WindowsCoordinates(y, x)))

\* SetConsoleTextAttribute calling the native function again when it failed
SetConsoleTextAttribute_retrying(con, attributes) ==
    LET first == NativeSetConsoleTextAttribute(con, attributes)
        again == NativeSetConsoleTextAttribute(first.con, attributes)
    IN IF con.valid THEN first ELSE Result(again.con, first.log \o again.log, FALSE)

SetConsoleTextAttribute(con, attributes) ==
    NativeSetConsoleTextAttribute(con, attributes)

\* the wrapper without its guard on negative coordinates
SetConsoleCursorPosition_unguarded(con, coords) ==
    NativeSetConsoleCursorPosition(con, from_param(coords))

SetConsoleCursorPosition(con, coords) ==
    IF coords.col < 0 \/ coords.row < 0
    THEN Result(con, <<>>, FALSE)
    ELSE NativeSetConsoleCursorPosition(con, from_param(coords))

SetConsoleCursorInfo(con, dwSize, bVisible) ==
    NativeSetConsoleCursorInfo(con, dwSize, bVisible)

\* one statement after another: s is what the second statement does on the
\* console the first leaves (r.con); it is not run when the first raised
Then(r, s) ==
    IF r.raised THEN r ELSE Result(s.con, r.log \o s.log, s.raised)

(***************************************************************************)
(* LegacyWindowsTerm.                                                      *)
(***************************************************************************)
cursor_position(con) ==
    WindowsCoordinates(con.dwCursorPosition.Y, con.dwCursorPosition.X)

screen_size(con) == WindowsCoordinates(con.dwSize.Y, con.dwSize.X)

\* file.write and file.flush: either may raise
file_write(con, text, fail) ==
    Result(con, <<NativeCall("write", <<>>, text)>>, fail = "write")

file_flush(con, fail) ==
    Result(con, <<NativeCall("flush", <<>>, "")>>, fail = "flush")

write_text(con, text, fail) ==
    LET written == file_write(con, text, fail)
    IN Then(written, file_flush(written.con, fail))

\* write_styled that leaves the styled attribute word in place
write_styled_unrestored(con, text, style, fail) ==
    LET fore == IF style.color # NoColor
                THEN ANSI_TO_WINDOWS[(IF style.color # NoNumber THEN style.color ELSE 7) + 1]
                ELSE term.default_fore
        back == IF style.bgcolor # NoColor
                THEN ANSI_TO_WINDOWS[(IF style.bgcolor # NoNumber THEN style.bgcolor ELSE 0) + 1]
                ELSE term.default_back
        styled == SetConsoleTextAttribute(con, c_ushort(fore + back * 16))
    IN Then(styled, write_text(styled.con, text, fail))

\* write_styled restoring the word rebuilt from the cached fields
write_styled_attrs(con, text, style, fail) ==
    LET fore == IF style.color # NoColor
                THEN ANSI_TO_WINDOWS[(IF style.color # NoNumber THEN style.color ELSE 7) + 1]
                ELSE term.default_fore
        back == IF style.bgcolor # NoColor
                THEN ANSI_TO_WINDOWS[(IF style.bgcolor # NoNumber THEN style.bgcolor ELSE 0) + 1]
                ELSE term.default_back
        styled == SetConsoleTextAttribute(con, c_ushort(fore + back * 16))
        written == Then(styled, write_text(styled.con, text, fail))
    IN Then(written, SetConsoleTextAttribute(written.con, term.default_attrs))

\* write_styled taking a colour numbered 0 for a colour without a number
write_styled_falsy(con, text, style, fail) ==
    LET fore == IF style.color # NoColor
                THEN ANSI_TO_WINDOWS[(IF style.color \notin {NoNumber, 0} THEN style.color ELSE 7) + 1]
                ELSE term.default_fore
        back == IF style.bgcolor # NoColor
                THEN ANSI_TO_WINDOWS[(IF style.bgcolor \notin {NoNumber, 0} THEN style.bgcolor ELSE 0) + 1]
                ELSE term.default_back
        styled == SetConsoleTextAttribute(con, c_ushort(fore + back * 16))
        written == Then(styled, write_text(styled.con, text, fail))
    IN Then(written, SetConsoleTextAttribute(written.con, term.default_text))

write_styled(con, text, style, fail) ==
    LET fore == IF style.color # NoColor
                THEN ANSI_TO_WINDOWS[(IF style.color # NoNumber THEN style.color ELSE 7) + 1]
                ELSE term.default_fore
        back == IF style.bgcolor # NoColor
                THEN ANSI_TO_WINDOWS[(IF style.bgcolor # NoNumber THEN style.bgcolor ELSE 0) + 1]
                ELSE term.default_back
        styled == SetConsoleTextAttribute(con, c_ushort(fore + back * 16))
        written == Then(styled, write_text(styled.con, text, fail))
    IN Then(written, SetConsoleTextAttribute(written.con, term.default_text))

move_cursor_to(con, new_position) == SetConsoleCursorPosition(con, new_position)

erase_line(con) ==
    LET cells_to_erase == screen_size(con).col
        start_coordinates == WindowsCoordinates(cursor_position(con).row, 0)
    IN FillConsoleOutputCharacter(con, cells_to_erase, start_coordinates)

erase_end_of_line(con) ==
    LET cells_to_erase == screen_size(con).col - cursor_position(con).col
    IN FillConsoleOutputCharacter(con, cells_to_erase, cursor_position(con))

erase_start_of_line(con) ==
    LET cells_to_erase == screen_size(con).col - cursor_position(con).col
    IN FillConsoleOutputCharacter(con, cells_to_erase, cursor_position(con))

move_cursor_up(con) ==
    SetConsoleCursorPosition(con,
        WindowsCoordinates(cursor_position(con).row - 1, cursor_position(con).col))

move_cursor_down(con) ==
    SetConsoleCursorPosition(con,
        WindowsCoordinates(cursor_position(con).row + 1, cursor_position(con).col))

\* move_cursor_forward that wraps one column late
move_cursor_forward_late(con) ==
    LET row == cursor_position(con).row
        col == cursor_position(con).col
    IN IF col = screen_size(con).col
       THEN SetConsoleCursorPosition(con, WindowsCoordinates(row + 1, 0))
       ELSE SetConsoleCursorPosition(con, WindowsCoordinates(row, col + 1))

move_cursor_forward(con) ==
    LET row == cursor_position(con).row
        col == cursor_position(con).col
    IN IF col = screen_size(con).col - 1
       THEN SetConsoleCursorPosition(con, WindowsCoordinates(row + 1, 0))
       ELSE SetConsoleCursorPosition(con, WindowsCoordinates(row, col + 1))

\* move_cursor_backward wrapping to the first column of the previous row
move_cursor_backward_unwrapped(con) ==
    LET row == cursor_position(con).row
        col == cursor_position(con).col
    IN IF col = 0
       THEN SetConsoleCursorPosition(con, WindowsCoordinates(row - 1, 0))
       ELSE SetConsoleCursorPosition(con, WindowsCoordinates(row, col - 1))

move_cursor_backward(con) ==
    LET row == cursor_position(con).row
        col == cursor_position(con).col
    IN IF col = 0
       THEN SetConsoleCursorPosition(con, WindowsCoordinates(row - 1, screen_size(con).col - 1))
       ELSE SetConsoleCursorPosition(con, WindowsCoordinates(row, col - 1))

hide_cursor(con) == SetConsoleCursorInfo(con, 100, 0)

show_cursor(con) == SetConsoleCursorInfo(con, 100, 1)

\* set_title whose bound lets a title of 255 characters through
set_title_inclusive(con, title) ==
    IF ~(Len(title) <= TitleLimit)
    THEN Result(con, <<>>, TRUE)
    ELSE NativeSetConsoleTitle(con, title)

\* the assert raises AssertionError before the native call
set_title(con, title) ==
    IF ~(Len(title) < TitleLimit)
    THEN Result(con, <<>>, TRUE)
    ELSE NativeSetConsoleTitle(con, title)

(***************************************************************************)
(* Construction: LegacyWindowsTerm.__init__ on a console whose attribute   *)
(* word is default_text.                                                   *)
(***************************************************************************)
LegacyWindowsTerm(default_text) ==
    [default_text |-> default_text,
     default_fore |-> default_text % 8,
     default_back |-> (default_text \div 16) % 8,
     default_attrs |-> (default_text % 8) + ((default_text \div 16) % 8) * 16]

\* standard output that is not a console: the handle is not a console handle
\* and every native call on it fails; a query leaves its structure zeroed
NoConsole ==
    [dwSize |-> COORD(0, 0), dwCursorPosition |-> COORD(0, 0), wAttributes |-> 0,
     bVisible |-> 0, blank |-> {}, valid |-> FALSE]

\* GetConsoleScreenBufferInfo: the BOOL of the native call is dropped and the
\* structure is returned as the call left it
GetConsoleScreenBufferInfo(con) ==
    IF con.valid
    THEN [dwSize |-> con.dwSize, dwCursorPosition |-> con.dwCursorPosition,
          wAttributes |-> con.wAttributes]
    ELSE [dwSize |-> COORD(0, 0), dwCursorPosition |-> COORD(0, 0), wAttributes |-> 0]

\* the adapter before __init__ has run: no attribute is set
Unconstructed ==
    [default_text |-> -1, default_fore |-> -1, default_back |-> -1, default_attrs |-> -1]

\* LegacyWindowsTerm.__init__ on the console of standard output
LegacyWindowsTerm_init(con) ==
    [term |-> LegacyWindowsTerm(GetConsoleScreenBufferInfo(con).wAttributes),
     raised |-> FALSE]

Consoles ==
    UNION {{[dwSize |-> COORD(w, h), dwCursorPosition |-> COORD(x, y), wAttributes |-> a,
             bVisible |-> 1, blank |-> {}, valid |-> TRUE] :
               x \in 0..(w - 1), y \in 0..(h - 1), a \in StartupWords} :
           w \in Widths, h \in Heights}

(***************************************************************************)
(* The adapter driven directly: each action is one call of one method.     *)
(***************************************************************************)
Call(c, r) ==
    /\ console' = r.con
    /\ calls' = <<c>>
    /\ native' = r.log
    /\ raised' = r.raised
    /\ UNCHANGED <<term, buffer, i, j>>

WriteText ==
    \E text \in Texts, fail \in FileFailures :
        Call(TermCall("write_text", <<>>, text, NoStyle), write_text(console, text, fail))

WriteStyled ==
    \E text \in Texts, style \in Styles, fail \in FileFailures :
        Call(TermCall("write_styled", <<>>, text, style),
             write_styled(console, text, style, fail))

MoveCursorTo ==
    \E row \in (-1)..MaxCoord, col \in (-1)..MaxCoord :
        Call(TermCall("move_cursor_to", <<row, col>>, "", NoStyle),
             move_cursor_to(console, WindowsCoordinates(row, col)))

EraseLine == Call(TermCall("erase_line", <<>>, "", NoStyle), erase_line(console))

EraseEndOfLine ==
    Call(TermCall("erase_end_of_line", <<>>, "", NoStyle), erase_end_of_line(console))

EraseStartOfLine ==
    Call(TermCall("erase_start_of_line", <<>>, "", NoStyle), erase_start_of_line(console))

MoveCursorUp == Call(TermCall("move_cursor_up", <<>>, "", NoStyle), move_cursor_up(console))

MoveCursorDown ==
    Call(TermCall("move_cursor_down", <<>>, "", NoStyle), move_cursor_down(console))

MoveCursorForward ==
    Call(TermCall("move_cursor_forward", <<>>, "", NoStyle), move_cursor_forward(console))

MoveCursorBackward ==
    Call(TermCall("move_cursor_backward", <<>>, "", NoStyle), move_cursor_backward(console))

HideCursor == Call(TermCall("hide_cursor", <<>>, "", NoStyle), hide_cursor(console))

ShowCursor == Call(TermCall("show_cursor", <<>>, "", NoStyle), show_cursor(console))

SetTitle ==
    \E title \in Titles :
        Call(TermCall("set_title", <<Len(title)>>, "", NoStyle), set_title(console, title))

Idle ==
    /\ buffer = <<>>
    /\ i = 1
    /\ j = 1
    /\ calls = <<>>
    /\ native = <<>>
    /\ raised = FALSE

(***************************************************************************)
(* Spec: the cursor methods called in any order on any console.            *)
(***************************************************************************)
Init ==
    /\ console \in {con \in Consoles : con.wAttributes = 7}
    /\ term = LegacyWindowsTerm(console.wAttributes)
    /\ Idle

Next ==
    \/ MoveCursorTo
    \/ MoveCursorUp
    \/ MoveCursorDown
    \/ MoveCursorForward
    \/ MoveCursorBackward

Spec == Init /\ [][Next]_vars

(***************************************************************************)
(* SpecRoundTrip: move_cursor_forward and move_cursor_backward called one  *)
(* after the other, at most MaxCalls calls; the call log is kept and each   *)
(* entry holds the cursor position the method read when it began.          *)
(***************************************************************************)
Follow(c, r) ==
    /\ Len(calls) < MaxCalls
    /\ console' = r.con
    /\ calls' = calls \o <<c>>
    /\ native' = native \o r.log
    /\ raised' = r.raised
    /\ UNCHANGED <<term, buffer, i, j>>

FollowForward ==
    LET at == cursor_position(console)
    IN Follow(TermCall("move_cursor_forward", <<at.row, at.col>>, "", NoStyle),
              move_cursor_forward(console))

FollowBackward ==
    LET at == cursor_position(console)
    IN Follow(TermCall("move_cursor_backward", <<at.row, at.col>>, "", NoStyle),
              move_cursor_backward(console))

NextRoundTrip ==
    \/ FollowForward
    \/ FollowBackward

SpecRoundTrip == Init /\ [][NextRoundTrip]_vars

(***************************************************************************)
(* SpecErase: the erase methods, with the cursor stepping between them.    *)
(***************************************************************************)
NextErase ==
    \/ EraseLine
    \/ EraseEndOfLine
    \/ EraseStartOfLine
    \/ MoveCursorUp
    \/ MoveCursorDown
    \/ MoveCursorForward
    \/ MoveCursorBackward

SpecErase == Init /\ [][NextErase]_vars

(***************************************************************************)
(* SpecWrite: the writing and cursor-visibility methods called in any      *)
(* order, for every attribute word the console can start with.             *)
(***************************************************************************)
InitWrite ==
    /\ console \in {con \in Consoles : con.dwSize.X = MaxWidth /\ con.dwCursorPosition = COORD(0, 0)}
    /\ term = LegacyWindowsTerm(console.wAttributes)
    /\ Idle

NextWrite ==
    \/ WriteText
    \/ WriteStyled
    \/ HideCursor
    \/ ShowCursor
    \/ SetTitle

SpecWrite == InitWrite /\ [][NextWrite]_vars

(***************************************************************************)
(* SpecConstruct: the adapter is constructed on standard output, console   *)
(* or not, and its cursor methods are then called.                         *)
(***************************************************************************)
Construct ==
    /\ term = Unconstructed
    /\ LET r == LegacyWindowsTerm_init(console)
       IN /\ term' = r.term
          /\ raised' = r.raised
    /\ calls' = <<TermCall("LegacyWindowsTerm", <<>>, "", NoStyle)>>
    /\ native' = <<>>
    /\ UNCHANGED <<console, buffer, i, j>>

InitConstruct ==
    /\ console \in Consoles \cup {NoConsole}
    /\ term = Unconstructed
    /\ Idle

NextConstruct ==
    \/ Construct
    \/ term # Unconstructed /\ ~raised /\ Next
    \/ term # Unconstructed /\ ~raised /\ HideCursor
    \/ term # Unconstructed /\ ~raised /\ ShowCursor

SpecConstruct == InitConstruct /\ [][NextConstruct]_vars

(***************************************************************************)
(* legacy_windows_render.  A segment is (text, style, control); a control  *)
(* code is a tuple whose first element is its ControlType.                 *)
(***************************************************************************)
Segment(text, style, control) == [text |-> text, style |-> style, control |-> control]

\* what dispatching one item leaves behind: the adapter method called, if
\* any, and what that method did
Dispatched(call, r) == [calls |-> <<call>>, result |-> r]
NotDispatched(con) == [calls |-> <<>>, result |-> Result(con, <<>>, FALSE)]

\* `if style:`
truthy(style) == ~style.none

\* a text run that always takes the styled path
render_text_styled(con, text, style, fail) ==
    Dispatched(TermCall("write_styled", <<>>, text, style),
               write_styled(con, text, style, fail))

render_text(con, text, style, fail) ==
    IF truthy(style)
    THEN Dispatched(TermCall("write_styled", <<>>, text, style),
                    write_styled(con, text, style, fail))
    ELSE Dispatched(TermCall("write_text", <<>>, text, NoStyle),
                    write_text(con, text, fail))

\* the coordinate with x and y taken for row and column
cursor_move_to_swapped(x, y) == WindowsCoordinates(x - 1, y - 1)

\* the coordinate taken as it is, without the step from 1-based to 0-based
cursor_move_to_one_based(x, y) == WindowsCoordinates(y, x)

cursor_move_to(x, y) == WindowsCoordinates(y - 1, x - 1)

\* erase-in-line with modes 0 and 1 exchanged
erase_in_line_swapped(con, mode) ==
    IF mode = 0
    THEN Dispatched(TermCall("erase_start_of_line", <<>>, "", NoStyle), erase_start_of_line(con))
    ELSE IF mode = 1
    THEN Dispatched(TermCall("erase_end_of_line", <<>>, "", NoStyle), erase_end_of_line(con))
    ELSE IF mode = 2
    THEN Dispatched(TermCall("erase_line", <<>>, "", NoStyle), erase_line(con))
    ELSE NotDispatched(con)

\* erase-in-line erasing the whole line for every mode but 0 and 1
erase_in_line_else(con, mode) ==
    IF mode = 0
    THEN Dispatched(TermCall("erase_end_of_line", <<>>, "", NoStyle), erase_end_of_line(con))
    ELSE IF mode = 1
    THEN Dispatched(TermCall("erase_start_of_line", <<>>, "", NoStyle), erase_start_of_line(con))
    ELSE Dispatched(TermCall("erase_line", <<>>, "", NoStyle), erase_line(con))

erase_in_line(con, mode) ==
    IF mode = 0
    THEN Dispatched(TermCall("erase_end_of_line", <<>>, "", NoStyle), erase_end_of_line(con))
    ELSE IF mode = 1
    THEN Dispatched(TermCall("erase_start_of_line", <<>>, "", NoStyle), erase_start_of_line(con))
    ELSE IF mode = 2
    THEN Dispatched(TermCall("erase_line", <<>>, "", NoStyle), erase_line(con))
    ELSE NotDispatched(con)

render_control(con, control_code, fail) ==
    LET control_type == control_code[1]
        Plain(op, r) == Dispatched(TermCall(op, <<>>, "", NoStyle), r)
    IN CASE control_type = "CURSOR_MOVE_TO" ->
              LET pos == cursor_move_to(control_code[2], control_code[3])
              IN Dispatched(TermCall("move_cursor_to", <<pos.row, pos.col>>, "", NoStyle),
                            move_cursor_to(con, pos))
         [] control_type = "CARRIAGE_RETURN" ->
              Dispatched(TermCall("write_text", <<>>, "\r", NoStyle),
                         write_text(con, "\r", fail))
         [] control_type = "HOME" ->
              Dispatched(TermCall("move_cursor_to", <<0, 0>>, "", NoStyle),
                         move_cursor_to(con, WindowsCoordinates(0, 0)))
         [] control_type = "CURSOR_UP" -> Plain("move_cursor_up", move_cursor_up(con))
         [] control_type = "CURSOR_DOWN" -> Plain("move_cursor_down", move_cursor_down(con))
         [] control_type = "CURSOR_FORWARD" ->
              Plain("move_cursor_forward", move_cursor_forward(con))
         [] control_type = "CURSOR_BACKWARD" ->
              Plain("move_cursor_backward", move_cursor_backward(con))
         [] control_type = "HIDE_CURSOR" -> Plain("hide_cursor", hide_cursor(con))
         [] control_type = "SHOW_CURSOR" -> Plain("show_cursor", show_cursor(con))
         [] control_type = "ERASE_IN_LINE" -> erase_in_line(con, control_code[2])
         [] OTHER -> NotDispatched(con)

\* the renderer is inside its loop, at a text run or at a control code
Running == ~raised /\ i <= Len(buffer)
AtText == Running /\ buffer[i].control = <<>>
AtControl == Running /\ buffer[i].control # <<>>
Done == ~raised /\ i > Len(buffer)

Step(d) ==
    /\ console' = d.result.con
    /\ calls' = calls \o d.calls
    /\ native' = native \o d.result.log
    /\ raised' = d.result.raised
    /\ UNCHANGED <<term, buffer>>

\* one iteration of the outer loop on a segment without control codes
RenderText ==
    /\ AtText
    /\ \E fail \in FileFailures :
          LET d == render_text(console, buffer[i].text, buffer[i].style, fail)
          IN /\ Step(d)
             /\ i' = IF d.result.raised THEN i ELSE i + 1
             /\ j' = j

\* one iteration of the inner loop on the control codes of a segment
RenderControl ==
    /\ AtControl
    /\ \E fail \in FileFailures :
          LET d == render_control(console, buffer[i].control[j], fail)
              last == j = Len(buffer[i].control)
          IN /\ Step(d)
             /\ i' = IF d.result.raised \/ ~last THEN i ELSE i + 1
             /\ j' = IF d.result.raised THEN j ELSE IF last THEN 1 ELSE j + 1

(***************************************************************************)
(* SpecRender: one call of legacy_windows_render on a buffer of segments.  *)
(***************************************************************************)
ControlTypes ==
    {"CARRIAGE_RETURN", "HOME", "CURSOR_UP", "CURSOR_DOWN", "CURSOR_FORWARD",
     "CURSOR_BACKWARD", "HIDE_CURSOR", "SHOW_CURSOR", "BELL"}

ControlCodes ==
    {<<"CURSOR_MOVE_TO", x, y>> : x \in (-1)..MaxCoord, y \in (-1)..MaxCoord}
        \cup {<<t>> : t \in ControlTypes}
        \cup {<<"ERASE_IN_LINE", mode>> : mode \in 0..3}

\* the control codes used in buffers of more than one item
CoreControlCodes ==
    {<<"CURSOR_MOVE_TO", 2, 3>>, <<"CURSOR_MOVE_TO", 0, 1>>}
        \cup {<<t>> : t \in ControlTypes}
        \cup {<<"ERASE_IN_LINE", mode>> : mode \in 0..3}

TextSegments ==
    {Segment(text, style, <<>>) :
        text \in Texts, style \in {NoStyle, Style(NoColor, NoColor), Style(12, 1)}}

ControlSegments(n) ==
    {Segment("", NoStyle, control) :
        control \in UNION {[1..k -> CoreControlCodes] : k \in 1..n}}

Items(segment) == IF segment.control = <<>> THEN 1 ELSE Len(segment.control)

\* the buffers of at most n items (text runs and control codes)
RECURSIVE BuffersOf(_)
BuffersOf(n) ==
    {<<>>} \cup
        UNION {{<<segment>> \o rest : rest \in BuffersOf(n - Items(segment))} :
               segment \in {s \in TextSegments \cup ControlSegments(n) : Items(s) <= n}}

Buffers ==
    BuffersOf(MaxItems) \cup {<<Segment("", NoStyle, <<code>>)>> : code \in ControlCodes}

InitRender ==
    /\ console \in {con \in Consoles :
                        /\ con.dwSize.X = MaxWidth
                        /\ con.dwCursorPosition \in {COORD(0, 0), COORD(MaxWidth - 1, 1)}}
    /\ term = LegacyWindowsTerm(console.wAttributes)
    /\ buffer \in Buffers
    /\ i = 1
    /\ j = 1
    /\ calls = <<>>
    /\ native = <<>>
    /\ raised = FALSE

NextRender ==
    \/ RenderText
    \/ RenderControl

SpecRender == InitRender /\ [][NextRender]_vars

(***************************************************************************)
(* SpecFailing: legacy_windows_render with an adapter that was constructed *)
(* on a standard output that is not a console, so that every native call   *)
(* it makes returns a failure status.                                      *)
(***************************************************************************)
InitFailing ==
    /\ console = NoConsole
    /\ term = LegacyWindowsTerm_init(console).term
    /\ buffer \in Buffers
    /\ i = 1
    /\ j = 1
    /\ calls = <<>>
    /\ native = <<>>
    /\ raised = FALSE

SpecFailing == InitFailing /\ [][NextRender]_vars

(***************************************************************************)
(* Properties.                                                             *)
(***************************************************************************)
LastCall == calls[Len(calls)]
Called(op) == calls # <<>> /\ LastCall.op = op
Calling(op) == calls' # <<>> /\ calls'[Len(calls')].op = op

AttributeCalls(log) == {k \in DOMAIN log : log[k].fn = "SetConsoleTextAttribute"}
WriteCalls(log) == {k \in DOMAIN log : log[k].fn = "write"}
CursorCalls(log) ==
    {k \in DOMAIN log : log[k].fn \in {"SetConsoleCursorPosition", "SetConsoleCursorInfo"}}

SetAttribute(word) == NativeCall("SetConsoleTextAttribute", <<word>>, "")
SetCursor(row, col) == NativeCall("SetConsoleCursorPosition", <<col, row>>, "")
Fill(length, row, col) == NativeCall("FillConsoleOutputCharacterW", <<length, col, row>>, " ")

Row(con) == con.dwCursorPosition.Y
Col(con) == con.dwCursorPosition.X
Width(con) == con.dwSize.X
Height(con) == con.dwSize.Y

\* C1: a write_styled call that wrote its text issued exactly two
\* set-text-attribute calls, one before the write of that text and one after
\* it, and the one after it carries the attribute word cached at construction.
C1_StyledWriteBracketed ==
    (Called("write_styled") /\ ~raised) =>
        /\ Cardinality(AttributeCalls(native)) = 2
        /\ Cardinality(WriteCalls(native)) = 1
        /\ \A w \in WriteCalls(native) :
              /\ native[w].text = LastCall.text
              /\ Cardinality({k \in AttributeCalls(native) : k < w}) = 1
              /\ Cardinality({k \in AttributeCalls(native) : k > w}) = 1
              /\ \A k \in AttributeCalls(native) :
                    k > w => native[k] = SetAttribute(term.default_text)

C1_Witness ==
    /\ Called("write_styled") /\ ~raised
    /\ LastCall.style = Style(12, NoColor)
    /\ term.default_text = 158
    /\ native[1] = SetAttribute(25)

\* C2: when the file write or flush inside write_styled raises, the last
\* call write_styled issues is still the set-text-attribute call with the
\* cached default word, and the console's attribute word is that default.
C2_RestoredWhenWriteFails ==
    (Called("write_styled") /\ raised) =>
        /\ native[Len(native)] = SetAttribute(term.default_text)
        /\ console.wAttributes = term.default_text

\* C3: move_cursor_to with a negative row or column issues no native call,
\* raises nothing and leaves the whole console as it was.
C3_NegativeMoveIsNoOp ==
    [][(/\ Calling("move_cursor_to")
        /\ (calls'[1].args[1] < 0 \/ calls'[1].args[2] < 0))
       => (console' = console /\ native' = <<>> /\ ~raised')]_vars

C3_Witness ==
    /\ Called("move_cursor_to")
    /\ LastCall.args = <<-1, 2>>
    /\ console.dwCursorPosition = COORD(1, 2)
    /\ native = <<>>

\* C4 as stated: forward at (r, w-1) leaves the cursor at (r+1, 0), backward
\* at (r, 0) leaves it at (r-1, w-1), for every row r; at any other column
\* the row is kept and the column changes by one.
C4_WrapsAtEveryRow ==
    [][/\ Calling("move_cursor_forward") =>
            IF Col(console) = Width(console) - 1
            THEN console'.dwCursorPosition = COORD(0, Row(console) + 1)
            ELSE console'.dwCursorPosition = COORD(Col(console) + 1, Row(console))
       /\ Calling("move_cursor_backward") =>
            IF Col(console) = 0
            THEN console'.dwCursorPosition = COORD(Width(console) - 1, Row(console) - 1)
            ELSE console'.dwCursorPosition = COORD(Col(console) - 1, Row(console))]_vars

\* C4 amended: forward at (r, w-1) leaves the cursor at (r+1, 0) when row r+1
\* is a row of the screen buffer and where it was otherwise; backward at
\* (r, 0) leaves it at (r-1, w-1) when r >= 1 and, at row 0, issues no native
\* call and leaves it at (0, 0); at any other column the row is kept and the
\* column changes by one.
C4_WrapsInsideBuffer ==
    [][/\ Calling("move_cursor_forward") =>
            IF Col(console) = Width(console) - 1
            THEN IF Row(console) + 1 < Height(console)
                 THEN console'.dwCursorPosition = COORD(0, Row(console) + 1)
                 ELSE console'.dwCursorPosition = console.dwCursorPosition
            ELSE console'.dwCursorPosition = COORD(Col(console) + 1, Row(console))
       /\ Calling("move_cursor_backward") =>
            IF Col(console) = 0
            THEN IF Row(console) >= 1
                 THEN console'.dwCursorPosition = COORD(Width(console) - 1, Row(console) - 1)
                 ELSE console'.dwCursorPosition = console.dwCursorPosition /\ native' = <<>>
            ELSE console'.dwCursorPosition = COORD(Col(console) - 1, Row(console))]_vars

C4_Witness ==
    /\ Called("move_cursor_backward")
    /\ Width(console) = 3
    /\ native = <<SetCursor(0, 2)>>
    /\ console.dwCursorPosition = COORD(2, 0)

\* C7: erase_line with the cursor at (r, c) issues one fill that starts at
\* row r, column 0 with count w, blanks exactly the cells of row r, and
\* leaves the cursor at (r, c).
C7_EraseLineBlanksCursorRow ==
    [][Calling("erase_line") =>
        /\ native' = <<Fill(Width(console), Row(console), 0)>>
        /\ console'.blank =
              console.blank \cup {<<Row(console), x>> : x \in 0..(Width(console) - 1)}
        /\ console'.dwCursorPosition = console.dwCursorPosition]_vars

\* C8: erase_end_of_line with the cursor at (r, c) issues one fill that
\* starts at row r, column c with count w - c, blanks exactly the cells of
\* row r from column c to column w-1, and does not move the cursor.
C8_EraseEndBlanksFromCursor ==
    [][Calling("erase_end_of_line") =>
        /\ native' = <<Fill(Width(console) - Col(console), Row(console), Col(console))>>
        /\ console'.blank =
              console.blank \cup
                  {<<Row(console), x>> : x \in Col(console)..(Width(console) - 1)}
        /\ console'.dwCursorPosition = console.dwCursorPosition]_vars

\* C9: erase_start_of_line with the cursor at (r, c) blanks the cells of row
\* r before the cursor column and blanks no cell to the right of the cursor
\* column.
C9_EraseStartBlanksUpToCursor ==
    [][Calling("erase_start_of_line") =>
        /\ \A x \in 0..(Col(console) - 1) : <<Row(console), x>> \in console'.blank
        /\ \A cell \in console'.blank \ console.blank :
              cell[1] = Row(console) /\ cell[2] <= Col(console)]_vars

\* C11: set_title with a title of 255 or more characters raises and issues no
\* native call; with a shorter title (254 characters included) it issues
\* exactly one set-console-title call, for that title.
C11_TitleBound ==
    Called("set_title") =>
        IF LastCall.args[1] >= 255
        THEN raised /\ native = <<>>
        ELSE ~raised /\ native = <<NativeCall("SetConsoleTitleW", LastCall.args, "")>>

C11_Witness ==
    /\ Called("set_title")
    /\ LastCall.args = <<255>>
    /\ raised
    /\ native = <<>>

\* the foreground and background fields of an attribute word
ForeField(word) == word % 16
BackField(word) == (word \div 16) % 16

\* the attribute word of the first set-text-attribute call of the call
StyledWord == native[1].args[1]

\* n with bit 0 and bit 2 exchanged, bits 1 and 3 kept
ExchangeRedBlue(n) ==
    ((n \div 4) % 2) + 2 * ((n \div 2) % 2) + 4 * (n % 2) + 8 * ((n \div 8) % 2)

\* C12: ANSI_TO_WINDOWS is 0,4,2,6,1,5,3,7,8,12,10,14,9,13,11,15, a bijection
\* of 0..15 whose entry for n is n with bits 0 and 2 exchanged and bits 1 and
\* 3 kept, so that applying it twice gives n back; write_styled sets that
\* entry as the field of a colour numbered n.
C12_TableExchangesRedBlue ==
    /\ ANSI_TO_WINDOWS = <<0, 4, 2, 6, 1, 5, 3, 7, 8, 12, 10, 14, 9, 13, 11, 15>>
    /\ {ANSI_TO_WINDOWS[n + 1] : n \in 0..15} = 0..15
    /\ \A n \in 0..15 :
          /\ ANSI_TO_WINDOWS[n + 1] = ExchangeRedBlue(n)
          /\ ANSI_TO_WINDOWS[ANSI_TO_WINDOWS[n + 1] + 1] = n
    /\ Called("write_styled") =>
          /\ LastCall.style.color \in 0..15 =>
                ForeField(StyledWord) = ExchangeRedBlue(LastCall.style.color)
          /\ LastCall.style.bgcolor \in 0..15 =>
                BackField(StyledWord) = ExchangeRedBlue(LastCall.style.bgcolor)

C12_Witness ==
    /\ Called("write_styled")
    /\ LastCall.style = Style(NoColor, 6)
    /\ BackField(StyledWord) = 3

\* the adapter method a directive stands for (with the text it passes), or
\* nothing for a directive that is not recognized
DirectiveCalls(code) ==
    LET type == code[1]
        methods == [HOME |-> "move_cursor_to", CURSOR_MOVE_TO |-> "move_cursor_to",
                    CURSOR_UP |-> "move_cursor_up", CURSOR_DOWN |-> "move_cursor_down",
                    CURSOR_FORWARD |-> "move_cursor_forward",
                    CURSOR_BACKWARD |-> "move_cursor_backward",
                    HIDE_CURSOR |-> "hide_cursor", SHOW_CURSOR |-> "show_cursor"]
    IN IF type \in DOMAIN methods THEN <<<<methods[type], "", NoStyle>>>>
       ELSE IF type = "CARRIAGE_RETURN" THEN <<<<"write_text", "\r", NoStyle>>>>
       ELSE IF type = "ERASE_IN_LINE" /\ code[2] \in 0..2
       THEN <<<<(<<"erase_end_of_line", "erase_start_of_line", "erase_line">>)[code[2] + 1],
                "", NoStyle>>>>
       ELSE <<>>

RECURSIVE BatchCalls(_)
BatchCalls(control) ==
    IF control = <<>> THEN <<>>
    ELSE DirectiveCalls(Head(control)) \o BatchCalls(Tail(control))

\* the adapter calls a buffer stands for, in order
RECURSIVE ExpectedCalls(_)
ExpectedCalls(segments) ==
    IF segments = <<>> THEN <<>>
    ELSE LET segment == Head(segments)
             first == IF segment.control # <<>> THEN BatchCalls(segment.control)
                      ELSE IF segment.style.none
                      THEN <<<<"write_text", segment.text, NoStyle>>>>
                      ELSE <<<<"write_styled", segment.text, segment.style>>>>
         IN first \o ExpectedCalls(Tail(segments))

\* the adapter calls made so far: method, text and style
MadeCalls == [k \in DOMAIN calls |-> <<calls[k].op, calls[k].text, calls[k].style>>]

\* C13: the adapter calls of legacy_windows_render are, in order, one call
\* per text run (write_styled with its text and style when it carries a
\* style, write_text with its text otherwise) and one call per recognized
\* directive of each control batch: while it runs the calls made are the
\* first ones of that list, and when it returns they are the whole list.
C13_DispatchedOnceInOrder ==
    LET expected == ExpectedCalls(buffer)
    IN /\ Len(MadeCalls) <= Len(expected)
       /\ MadeCalls = SubSeq(expected, 1, Len(MadeCalls))
       /\ Done => MadeCalls = expected

C13_Witness ==
    /\ Done
    /\ buffer = <<Segment("a", Style(12, 1), <<>>),
                  Segment("", NoStyle, <<<<"CURSOR_UP">>>>)>>
    /\ MadeCalls = <<<<"write_styled", "a", Style(12, 1)>>,
                     <<"move_cursor_up", "", NoStyle>>>>

\* C14: when standard output is not a console (no console handle, or the
\* buffer-info query fails), constructing LegacyWindowsTerm raises and leaves
\* no adapter.
C14_ConstructionFailsWithoutConsole ==
    (Called("LegacyWindowsTerm") /\ ~console.valid) => (raised /\ term = Unconstructed)

\* C15: in write_styled a style without a foreground (background) colour keeps
\* the 4-bit foreground (background) field of the attribute word captured at
\* construction in the word of its first set-text-attribute call, whatever
\* that startup word is, intensity bits included.
C15_AbsentChannelKeepsDefaultField ==
    Called("write_styled") =>
        /\ LastCall.style.color = NoColor =>
              ForeField(StyledWord) = ForeField(term.default_text)
        /\ LastCall.style.bgcolor = NoColor =>
              BackField(StyledWord) = BackField(term.default_text)

\* the number looked up in ANSI_TO_WINDOWS for a present colour: its own
\* number, 0 included, or the given one when it has none
LookedUp(color, substitute) == IF color = NoNumber THEN substitute ELSE color

\* C16: in write_styled a present colour numbered n in 0..15 sets the field
\* ANSI_TO_WINDOWS[n], n = 0 included; a present colour without a number is
\* replaced by ANSI 7 (foreground) or ANSI 0 (background) before the table is
\* applied.
C16_PresentColourIsLookedUp ==
    Called("write_styled") =>
        /\ LastCall.style.color # NoColor =>
              ForeField(StyledWord) = ANSI_TO_WINDOWS[LookedUp(LastCall.style.color, 7) + 1]
        /\ LastCall.style.bgcolor # NoColor =>
              BackField(StyledWord) = ANSI_TO_WINDOWS[LookedUp(LastCall.style.bgcolor, 0) + 1]

C16_Witness ==
    /\ Called("write_styled")
    /\ LastCall.style = Style(0, NoNumber)
    /\ term.default_text = 158
    /\ StyledWord = 0

\* the control code the renderer is about to dispatch
Current == buffer[i].control[j]

\* the renderer moves on to the item after the current directive
NextDirective ==
    IF j < Len(buffer[i].control) THEN i' = i /\ j' = j + 1 ELSE i' = i + 1 /\ j' = 1

RecognizedTypes ==
    {"CURSOR_MOVE_TO", "CARRIAGE_RETURN", "HOME", "CURSOR_UP", "CURSOR_DOWN",
     "CURSOR_FORWARD", "CURSOR_BACKWARD", "HIDE_CURSOR", "SHOW_CURSOR", "ERASE_IN_LINE"}

Unrecognized(code) ==
    \/ code[1] \notin RecognizedTypes
    \/ code[1] = "ERASE_IN_LINE" /\ code[2] \notin {0, 1, 2}

\* C17: a directive of an unrecognized type, or an erase-in-line whose mode is
\* not 0, 1 or 2, calls no adapter method, makes no native call, changes
\* nothing on the console and raises nothing, and the renderer goes on with
\* the next directive or instruction.
C17_UnrecognizedIsSkipped ==
    [][(AtControl /\ Unrecognized(Current)) =>
          /\ calls' = calls
          /\ native' = native
          /\ console' = console
          /\ ~raised'
          /\ NextDirective]_vars

C17_Witness ==
    /\ Done
    /\ buffer = <<Segment("", NoStyle, <<<<"ERASE_IN_LINE", 3>>, <<"HOME">>>>)>>
    /\ Len(calls) = 1
    /\ calls[1].op = "move_cursor_to"
PlainCall(op) == TermCall(op, <<>>, "", NoStyle)

\* C5: dispatching move-cursor-absolute(x, y) calls move_cursor_to once with
\* (row y-1, col x-1), and dispatching home calls it once with (0, 0).
C5_MoveToIsZeroBased ==
    [][/\ (AtControl /\ Current[1] = "CURSOR_MOVE_TO") =>
            calls' = Append(calls, TermCall("move_cursor_to",
                                            <<Current[3] - 1, Current[2] - 1>>, "", NoStyle))
       /\ (AtControl /\ Current[1] = "HOME") =>
            calls' = Append(calls, TermCall("move_cursor_to", <<0, 0>>, "", NoStyle))]_vars

C5_Witness ==
    /\ Done
    /\ buffer = <<Segment("", NoStyle, <<<<"CURSOR_MOVE_TO", 2, 3>>>>)>>
    /\ calls = <<TermCall("move_cursor_to", <<2, 1>>, "", NoStyle)>>
    /\ console.dwCursorPosition = COORD(1, 2)

\* C6: dispatching erase-in-line calls exactly one erase method: mode 0
\* erase_end_of_line, mode 1 erase_start_of_line, mode 2 erase_line.
C6_EraseModeSelectsMethod ==
    [][(AtControl /\ Current[1] = "ERASE_IN_LINE" /\ Current[2] \in 0..2) =>
          calls' = Append(calls,
                          PlainCall(CASE Current[2] = 0 -> "erase_end_of_line"
                                      [] Current[2] = 1 -> "erase_start_of_line"
                                      [] Current[2] = 2 -> "erase_line"))]_vars

C6_Witness ==
    /\ Done
    /\ buffer = <<Segment("", NoStyle, <<<<"ERASE_IN_LINE", 1>>, <<"ERASE_IN_LINE", 0>>>>)>>
    /\ calls = <<PlainCall("erase_start_of_line"), PlainCall("erase_end_of_line")>>

PlainText(segment) == segment.control = <<>> /\ segment.style = NoStyle

\* C10: when every instruction of the buffer is text without style, the
\* render calls write_text once per instruction, in order and with that
\* instruction's text, and issues no set-text-attribute and no cursor call.
C10_PlainTextOnlyWrites ==
    (Done /\ \A k \in DOMAIN buffer : PlainText(buffer[k])) =>
        /\ calls = [k \in DOMAIN buffer |-> TermCall("write_text", <<>>, buffer[k].text, NoStyle)]
        /\ AttributeCalls(native) = {}
        /\ CursorCalls(native) = {}
        /\ Cardinality(WriteCalls(native)) = Len(buffer)

C10_Witness ==
    /\ Done
    /\ buffer = <<Segment("b", NoStyle, <<>>), Segment("a", NoStyle, <<>>)>>
    /\ calls = <<TermCall("write_text", <<>>, "b", NoStyle),
                 TermCall("write_text", <<>>, "a", NoStyle)>>

\* the native console calls among the entries of a log (the file's write
\* and flush are not console calls)
Attempts(log) == Cardinality({k \in DOMAIN log : log[k].fn \notin {"write", "flush"}})

\* the native console calls one adapter call makes when each is attempted
\* once, with the cursor reported at (0, 0): a position with a negative row
\* or column is rejected before any native call
AttemptsOf(call) ==
    CASE call.op = "write_text" -> 0
      [] call.op = "write_styled" -> 2
      [] call.op \in {"move_cursor_up", "move_cursor_backward"} -> 0
      [] call.op = "move_cursor_to" -> IF call.args[1] < 0 \/ call.args[2] < 0 THEN 0 ELSE 1
      [] OTHER -> 1

\* C18: when the native calls return a failure status, no adapter method
\* raises (only the file's write or flush can) and none calls a native
\* function again: each native call is attempted exactly once, the console
\* is left as it was, and legacy_windows_render goes on to the next item, so
\* that on return every instruction was dispatched exactly once.
C18_FailedCallsAreNotRetried ==
    [][Running =>
          LET attempted == SubSeq(native', Len(native) + 1, Len(native'))
              made == SubSeq(calls', Len(calls) + 1, Len(calls'))
          IN /\ console' = console
             /\ raised' => attempted[Len(attempted)].fn \in {"write", "flush"}
             /\ made = <<>> => attempted = <<>>
             /\ (made # <<>> /\ ~raised') => Attempts(attempted) = AttemptsOf(made[1])
             /\ ~raised' =>
                   IF buffer[i].control = <<>> THEN i' = i + 1 /\ j' = j ELSE NextDirective
             /\ (~raised' /\ i' > Len(buffer)) =>
                   [k \in DOMAIN calls' |-> <<calls'[k].op, calls'[k].text, calls'[k].style>>]
                       = ExpectedCalls(buffer)]_vars

C18_Witness ==
    /\ Done
    /\ ~console.valid
    /\ buffer = <<Segment("a", Style(12, 1), <<>>),
                  Segment("", NoStyle, <<<<"HIDE_CURSOR">>>>)>>
    /\ Len(calls) = 2
    /\ [k \in DOMAIN native |-> native[k].fn] =
          <<"SetConsoleTextAttribute", "write", "flush", "SetConsoleTextAttribute",
            "SetConsoleCursorInfo">>

\* C19: while legacy_windows_render runs on a console, between any two
\* instructions and when it has returned, the console's attribute word is the
\* word captured at construction, and no step changes the adapter's cached
\* words.
C19_AttributeWordIsRestored ==
    [][/\ term' = term
       /\ ~raised' => console'.wAttributes = term.default_text]_vars

C19_Witness ==
    /\ Done
    /\ term.default_text = 158
    /\ buffer = <<Segment("a", Style(12, 1), <<>>),
                  Segment("b", Style(NoColor, NoColor), <<>>)>>
    /\ console.wAttributes = 158
    /\ [k \in DOMAIN native |-> native[k].args] =
          <<<<73>>, <<>>, <<>>, <<158>>, <<22>>, <<>>, <<>>, <<158>>>>

\* the cursor directives that ask for a position above row 0 or left of
\* column 0
LeavesScreen(code, con) ==
    \/ code[1] = "CURSOR_UP" /\ Row(con) = 0
    \/ code[1] = "CURSOR_BACKWARD" /\ Row(con) = 0 /\ Col(con) = 0
    \/ code[1] = "CURSOR_MOVE_TO" /\ (code[2] < 1 \/ code[3] < 1)

\* C20: from a cursor with row >= 0 and column >= 0, every step of the
\* renderer leaves row >= 0 and column >= 0; cursor-up at row 0,
\* cursor-backward at (0, 0) and a move-absolute with x < 1 or y < 1 leave
\* the cursor where it was.
C20_CursorStaysOnScreen ==
    [][/\ Row(console') >= 0
       /\ Col(console') >= 0
       /\ (AtControl /\ LeavesScreen(Current, console)) =>
             console'.dwCursorPosition = console.dwCursorPosition]_vars

C20_Witness ==
    /\ Done
    /\ buffer = <<Segment("", NoStyle, <<<<"CURSOR_MOVE_TO", 0, 1>>>>)>>
    /\ calls = <<TermCall("move_cursor_to", <<0, -1>>, "", NoStyle)>>
    /\ Row(console) = 1
    /\ Col(console) = Width(console) - 1

\* the last two calls were first, then second
LastTwo(first, second) ==
    /\ Len(calls) >= 2
    /\ calls[Len(calls) - 1].op = first
    /\ calls[Len(calls)].op = second

\* where the cursor was before the first of the last two calls
Before == calls[Len(calls) - 1].args

\* the cursor is back where it was before the last two calls
Returned == <<Row(console), Col(console)>> = Before

\* C21 as stated: from every cursor position, move_cursor_forward followed by
\* move_cursor_backward returns the cursor to it, and from every position
\* other than (0, 0) so does move_cursor_backward followed by
\* move_cursor_forward.
C21_RoundTripEverywhere ==
    /\ LastTwo("move_cursor_forward", "move_cursor_backward") => Returned
    /\ (LastTwo("move_cursor_backward", "move_cursor_forward") /\ Before # <<0, 0>>) =>
          Returned

\* C21: from every cursor position other than the last cell of the screen
\* buffer, move_cursor_forward followed by move_cursor_backward returns the
\* cursor to it; from the last cell the forward call leaves the cursor there
\* and the backward call moves it one cell back.  From every position other
\* than (0, 0), move_cursor_backward followed by move_cursor_forward returns
\* the cursor to it.
C21_RoundTripInsideBuffer ==
    /\ LastTwo("move_cursor_forward", "move_cursor_backward") =>
          IF Before = <<Height(console) - 1, Width(console) - 1>>
          THEN <<Row(console), Col(console)>> =
                 IF Width(console) > 1
                 THEN <<Before[1], Before[2] - 1>>
                 ELSE IF Before[1] > 0 THEN <<Before[1] - 1, 0>> ELSE Before
          ELSE Returned
    /\ (LastTwo("move_cursor_backward", "move_cursor_forward") /\ Before # <<0, 0>>) =>
          Returned

C21_Witness ==
    /\ LastTwo("move_cursor_forward", "move_cursor_backward")
    /\ Width(console) = 3
    /\ Before = <<0, 2>>
    /\ calls[Len(calls)].args = <<1, 0>>
    /\ Returned

====
